---------------------------- MODULE Spec2Model ----------------------------
(***************************************************************************)
(* A model of S3NotebookManager (s3nbmanager.py): a notebook manager that  *)
(* keeps notebooks, their single checkpoint and their companion script as  *)
(* objects of a flat S3 bucket.                                            *)
(*                                                                         *)
(* Strings are sequences of one-character strings, so that strip('/'),     *)
(* os.path.splitext and the concatenations of the path code are modelled   *)
(* by what they do.  The bucket is a function from the keys that exist to  *)
(* the bytes stored there.  An object's bytes are a triple                 *)
(* <<format, cells, metadata name>>: "json" and "py" are the two           *)
(* serialisations current.writes produces, "raw" stands for bytes that do  *)
(* not decode as a notebook, "empty" is the zero-length string.            *)
(* Time stamps (last_modified) are not modelled.                           *)
(*                                                                         *)
(* Spec runs the handlers one at a time and to completion, from any bucket *)
(* over the keys of two documents.  SpecFresh does the same from an empty  *)
(* bucket, for two documents of one directory.  SpecPaths applies the path *)
(* resolver, SpecTree the listings.  SpecSteps runs delete_notebook and    *)
(* rename_notebook one store call at a time, two handlers at once; `procs` *)
(* holds these handlers and is empty in the other specifications.          *)
(* SpecDocs runs the handlers that change the bucket from an empty bucket  *)
(* with script export off, on three documents of which one lies in a       *)
(* checkpoint directory.                                                   *)
(***************************************************************************)
EXTENDS Integers, Sequences, FiniteSets, TLC

VARIABLES bucket, save_script, last, prev, hist, procs

vars == <<bucket, save_script, last, prev, hist, procs>>

-----------------------------------------------------------------------------
(* Bounds and inputs *)

\* The payloads are the notebooks of 1..MaxCells cells without a metadata
\* name, and the notebook of one cell with a metadata name.
MaxCells == 1

Slash == "/"
Dot == "."

\* filename_ext of the NotebookManager base class, as used by the code.
filename_ext == <<".", "i", "p", "y", "n", "b">>

\* The script suffix of save_notebook and rename_notebook.
py_ext == <<".", "p", "y">>

\* notebook_dir as get_nb_bucket_settings returns it: 'DropBox/' + uid,
\* forced to end with '/'; the configured uid is "u".
notebook_dir == <<"D", "r", "o", "p", "B", "o", "x", "/", "u", "/">>

\* _checkpoint_dir_default
checkpoint_dir ==
    <<".", "i", "p", "y", "n", "b", "_", "c", "h", "e", "c", "k",
      "p", "o", "i", "n", "t", "s", "/">>

\* checkpoint_id = u"checkpoint" (create_checkpoint, list_checkpoints)
checkpoint_id == <<"c", "h", "e", "c", "k", "p", "o", "i", "n", "t">>

\* An id the manager never issues.
other_id == <<"x">>

NameA == <<"a">> \o filename_ext
NameB == <<"b">> \o filename_ext
PathRoot == <<>>
PathD == <<"d">>

\* The documents the operations are called on: one at the root and one,
\* with another name, in directory d.
Refs == {<<NameA, PathRoot>>, <<NameB, PathD>>}
RefNames == {r[1] : r \in Refs}
RefPaths == {r[2] : r \in Refs}
CheckpointIds == {checkpoint_id, other_id}

-----------------------------------------------------------------------------
(* Strings *)

RECURSIVE LStrip(_)
LStrip(s) ==
    IF s # <<>> /\ Head(s) = Slash THEN LStrip(Tail(s)) ELSE s

RECURSIVE RStrip(_)
RStrip(s) ==
    IF s # <<>> /\ s[Len(s)] = Slash THEN RStrip(SubSeq(s, 1, Len(s) - 1)) ELSE s

\* str.strip('/')
Strip(s) == RStrip(LStrip(s))

\* str.rfind(c), 1-based; 0 when c does not occur
RFind(s, c) ==
    LET hits == {i \in 1..Len(s) : s[i] = c}
    IN  IF hits = {} THEN 0 ELSE CHOOSE i \in hits : \A j \in hits : j <= i

\* os.path.splitext(p)[0]: p up to its last dot, when that dot lies in the
\* last component and is preceded there by a character that is not a dot.
SplitextRoot(p) ==
    LET sepIndex == RFind(p, Slash)
        dotIndex == RFind(p, Dot)
    IN  IF dotIndex > sepIndex
           /\ \E i \in (sepIndex + 1)..(dotIndex - 1) : p[i] # Dot
        THEN SubSeq(p, 1, dotIndex - 1)
        ELSE p

\* str.endswith
EndsWith(s, suf) ==
    /\ Len(suf) <= Len(s)
    /\ SubSeq(s, Len(s) - Len(suf) + 1, Len(s)) = suf

\* str.startswith
StartsWith(s, pre) ==
    /\ Len(pre) <= Len(s)
    /\ SubSeq(s, 1, Len(pre)) = pre

\* str.replace(old, ''), for a non-empty old: every occurrence of old,
\* found from left to right, is taken out.
RECURSIVE Replace(_, _)
Replace(s, old) ==
    IF Len(s) < Len(old) THEN s
    ELSE IF StartsWith(s, old)
    THEN Replace(SubSeq(s, Len(old) + 1, Len(s)), old)
    ELSE <<Head(s)>> \o Replace(Tail(s), old)

\* c in s
Contains(s, c) == \E i \in 1..Len(s) : s[i] = c

-----------------------------------------------------------------------------
(* Path resolution *)

\* A resolver that leaves the directory out of the key.
GetOsPathFlat(name, path) ==
    IF name # <<>> THEN Strip(notebook_dir) \o <<Slash>> \o Strip(name)
    ELSE Strip(notebook_dir)

\* A resolver that does not put notebook_dir before a path.
GetOsPathBare(name, path) ==
    IF name # <<>> THEN Strip(path) \o <<Slash>> \o Strip(name)
    ELSE Strip(path)

\* S3NotebookManager._get_os_path; name = <<>> stands for None and ''.
GetOsPath(name, path) ==
    LET out_path == Strip(path)
        nb_dir == Strip(notebook_dir)
        base == IF out_path = <<>> THEN nb_dir
                ELSE IF nb_dir # <<>> THEN nb_dir \o <<Slash>> \o out_path
                ELSE out_path
    IN  IF name # <<>> THEN base \o <<Slash>> \o Strip(name) ELSE base

\* S3NotebookManager.get_checkpoint_path
GetCheckpointPath(cid, name, path) ==
    LET basename == SplitextRoot(name)
        filename == basename \o <<"-">> \o cid \o filename_ext
        path1 == GetOsPath(checkpoint_dir, path)
    IN  path1 \o <<Slash>> \o filename

\* py_path = os.path.splitext(os_path)[0] + '.py'
PyPath(os_path) == SplitextRoot(os_path) \o py_ext

-----------------------------------------------------------------------------
(* Notebook contents and their serialisations *)

\* A notebook is <<number of cells, metadata name>>; the metadata name is
\* "absent", "" or a non-empty name ("nb").
NoNb == <<0, "none">>
PayloadNbs == {<<c, "absent">> : c \in 1..MaxCells} \cup {<<1, "nb">>}

\* A save that leaves the metadata name as the payload has it.
KeepName(nb) == nb

\* save_notebook: if 'name' in nb['metadata']: nb['metadata']['name'] = u''
BlankName(nb) == IF nb[2] # "absent" THEN <<nb[1], "">> ELSE nb

\* current.writes(nb, u'json') and current.writes(nb, u'py'): the JSON form
\* carries the cells and the metadata, the script form the cells alone.
Writes(nb, fmt) ==
    IF fmt = "py" THEN <<"py", nb[1], "">> ELSE <<fmt, nb[1], nb[2]>>

\* Bytes that are not JSON, and the zero-length string.
RawBytes == <<"raw", 0, "">>
EmptyBytes == <<"empty", 0, "">>

\* current.reads(s, u'json') raises unless s is the JSON form of a notebook.
Decodes(bytes) == bytes[1] = "json"
Reads(bytes) == <<bytes[2], bytes[3]>>

-----------------------------------------------------------------------------
(* The bucket *)

\* key_exists: bucket.get_key(path) is not None
key_exists(b, key) == key \in DOMAIN b

\* new_key_from_string: an unconditional put
new_key_from_string(b, key, contents) == (key :> contents) @@ b

\* A delete_key that deletes nothing.
KeepKey(b, key) == b

\* bucket.delete_key
delete_key(b, key) == [k \in DOMAIN b \ {key} |-> b[k]]

\* The outcome of an operation: the bucket it leaves, its status ("ok", the
\* code of the HTTPError it raises, or the name of the exception that
\* escapes it), the step that raised, and what it returns.
Outcome(b, status, step, ret) ==
    [b |-> b, status |-> status, step |-> step, ret |-> ret]

\* The element of a one-element set.  Only({e(x) : x \in {v}}) is e(v) with
\* v evaluated once: it is how an intermediate result is named below.
Only(S) == CHOOSE x \in S : TRUE

\* bucket.copy_key(dest, bucket.name, src): S3 answers 404 for a source
\* that does not exist and boto raises S3ResponseError.
copy_key(b, dest, src) ==
    IF src \in DOMAIN b
    THEN Outcome((dest :> b[src]) @@ b, "ok", 0, <<>>)
    ELSE Outcome(b, "S3ResponseError", 0, <<>>)

\* A copy that leaves a destination that exists as it is.
CopyIfAbsent(b, src, dest) ==
    IF dest \in DOMAIN b THEN Outcome(b, "ok", 0, <<>>)
    ELSE copy_key(b, dest, src)

\* S3NotebookManager._copy(src, dest)
Copy(b, src, dest) == copy_key(b, dest, src)

\* A move_key that deletes the source without first copying it.
MoveKeyNoCopy(b, new_name, old_name) ==
    Outcome(delete_key(b, Strip(old_name)), "ok", 0, <<>>)

\* move_key(bucket, new_name, old_name)
move_key(b, new_name, old_name) ==
    LET new == Strip(new_name)
        old == Strip(old_name)
    IN  IF key_exists(b, new) THEN Outcome(b, "409", 0, <<>>)
        ELSE IF ~key_exists(b, old) THEN Outcome(b, "409", 0, <<>>)
        ELSE Only({IF c.status # "ok" THEN c
                   ELSE Outcome(delete_key(c.b, old), "ok", 0, <<>>) :
                   c \in {copy_key(b, new, old_name)}})

-----------------------------------------------------------------------------
(* Queries *)

\* S3NotebookManager.notebook_exists
notebook_exists(b, name, path) == key_exists(b, GetOsPath(name, path))

\* S3NotebookManager.get_checkpoint_model, without its time stamp
get_checkpoint_model(cid, name, path) == [id |-> cid]

\* S3NotebookManager.list_checkpoints
list_checkpoints(b, name, path) ==
    IF ~key_exists(b, GetCheckpointPath(checkpoint_id, name, path))
    THEN <<>>
    ELSE <<get_checkpoint_model(checkpoint_id, name, path)>>

\* The notebook model get_notebook builds, without its time stamps.
NotebookModel(name, path, content) ==
    [name |-> name, path |-> path, type |-> "notebook", content |-> content]

\* S3NotebookManager.get_notebook
get_notebook(b, name, path, content) ==
    IF ~notebook_exists(b, name, path) THEN Outcome(b, "404", 0, <<>>)
    ELSE LET os_path == GetOsPath(name, path)
         IN  IF ~content
             THEN Outcome(b, "ok", 0, <<NotebookModel(name, path, NoNb)>>)
             ELSE IF ~Decodes(b[os_path])
             THEN Outcome(b, "NotJSONError", 0, <<>>)
             ELSE Outcome(b, "ok", 0,
                          <<NotebookModel(name, path, Reads(b[os_path]))>>)

-----------------------------------------------------------------------------
(* Listings.  A listing is modelled as the set of its entries: the order   *)
(* bucket.list and sorted() give them is not modelled.                     *)

\* bucket.list(prefix): the keys that start with prefix.
bucket_list(b, prefix) == {k \in DOMAIN b : StartsWith(k, prefix)}

\* list_keys(bucket, path, extension); extension = <<>> stands for None.
list_keys(b, path0, extension) ==
    LET path == Strip(path0)
    IN  {name \in {LStrip(Replace(k, path)) : k \in bucket_list(b, path)} :
            /\ name # <<>>
            /\ extension = <<>> \/ EndsWith(name, extension)
            /\ ~Contains(Strip(name), Slash)}

\* S3NotebookManager.get_notebook_names
get_notebook_names(b, path) ==
    list_keys(b, GetOsPath(<<>>, path), filename_ext)

\* is_hidden(bucket, path): the last segment of path starts with '.'
is_hidden(path) ==
    LET last_part == SubSeq(path, RFind(path, Slash) + 1, Len(path))
    IN  last_part # <<>> /\ Head(last_part) = Dot

\* NotebookManager.should_list with the default hide_globs, ['__pycache__']:
\* fnmatch of the whole name against a pattern without wildcards.
should_list(name) ==
    name # <<"_", "_", "p", "y", "c", "a", "c", "h", "e", "_", "_">>

\* S3NotebookManager.get_dir_model, without its time stamps: <<>> when it
\* raises HTTPError 404.
get_dir_model(b, name, path) ==
    IF ~key_exists(b, GetOsPath(name, path) \o <<Slash>>) THEN <<>>
    ELSE <<[name |-> name, path |-> path, type |-> "directory"]>>

\* S3NotebookManager.list_dirs
list_dirs(b, path) ==
    LET os_path0 == GetOsPath(<<>>, path)
        os_path == IF EndsWith(os_path0, <<Slash>>) THEN os_path0
                   ELSE os_path0 \o <<Slash>>
        dir_names == list_keys(b, os_path, <<Slash>>)
        listed == {name \in dir_names :
                      /\ should_list(GetOsPath(name, path))
                      /\ ~is_hidden(GetOsPath(name, path))}
    IN  IF ~key_exists(b, os_path) THEN Outcome(b, "404", 0, {})
        ELSE IF is_hidden(os_path) THEN Outcome(b, "404", 0, {})
        ELSE IF \E name \in listed : get_dir_model(b, name, path) = <<>>
        THEN Outcome(b, "404", 1, {})
        ELSE Outcome(b, "ok", 0,
                     {get_dir_model(b, name, path)[1] : name \in listed})

-----------------------------------------------------------------------------
(* Checkpoints *)

\* S3NotebookManager.create_checkpoint: the marker of checkpoint_dir is put
\* when that key does not exist, then the notebook is copied to its
\* checkpoint key.
create_checkpoint(b, name, path) ==
    LET nb_path == GetOsPath(name, path)
        cp_path == GetCheckpointPath(checkpoint_id, name, path)
        b1 == IF ~key_exists(b, checkpoint_dir)
              THEN new_key_from_string(b, checkpoint_dir, EmptyBytes)
              ELSE b
    IN  Only({IF c.status # "ok" THEN Outcome(c.b, c.status, 1, <<>>)
              ELSE Outcome(c.b, "ok", 0,
                       <<get_checkpoint_model(checkpoint_id, name, path)>>) :
              c \in {Copy(b1, nb_path, cp_path)}})

\* A restore that does not read the checkpoint before copying it.
RestoreUnread(b, cp_path) == TRUE

\* restore_checkpoint's "ensure notebook is readable": current.reads of the
\* checkpoint's bytes returns (TRUE) or raises (FALSE).
RestoreReadable(b, cp_path) == Decodes(b[cp_path])

\* S3NotebookManager.restore_checkpoint
restore_checkpoint(b, cid, name, path) ==
    LET nb_path == GetOsPath(name, path)
        cp_path == GetCheckpointPath(cid, name, path)
    IN  IF ~key_exists(b, cp_path) THEN Outcome(b, "404", 0, <<>>)
        ELSE IF ~RestoreReadable(b, cp_path)
        THEN Outcome(b, "NotJSONError", 1, <<>>)
        ELSE Only({Outcome(c.b, c.status,
                           IF c.status = "ok" THEN 0 ELSE 2, <<>>) :
                   c \in {Copy(b, cp_path, nb_path)}})

\* S3NotebookManager.delete_checkpoint
delete_checkpoint(b, cid, name, path) ==
    LET cp_path == GetCheckpointPath(cid, name, path)
    IN  IF ~key_exists(b, cp_path) THEN Outcome(b, "404", 0, <<>>)
        ELSE Outcome(delete_key(b, cp_path), "ok", 0, <<>>)

-----------------------------------------------------------------------------
(* Delete and rename *)

\* A delete that leaves the checkpoints where they are.
KeepCheckpoints(b, cps, name, path) == b

\* delete_notebook's loop over list_checkpoints(name, path): each listed
\* checkpoint whose key exists is deleted.
RECURSIVE ClearCheckpoints(_, _, _, _)
ClearCheckpoints(b, cps, name, path) ==
    IF cps = <<>> THEN b
    ELSE LET cp_path == GetCheckpointPath(Head(cps).id, name, path)
         IN  ClearCheckpoints(IF key_exists(b, cp_path)
                              THEN delete_key(b, cp_path) ELSE b,
                              Tail(cps), name, path)

\* S3NotebookManager.delete_notebook
delete_notebook(b, name, path) ==
    LET os_path == GetOsPath(name, path)
    IN  IF ~key_exists(b, os_path) THEN Outcome(b, "404", 0, <<>>)
        ELSE Outcome(delete_key(ClearCheckpoints(b,
                                    list_checkpoints(b, name, path),
                                    name, path),
                                os_path),
                     "ok", 0, <<>>)

\* A rename that leaves the checkpoints of the old document behind.
LeaveCheckpoints(b, cps, old_name, old_path, new_name, new_path) ==
    Outcome(b, "ok", 0, <<>>)

\* rename_notebook's loop over the old checkpoints: each is moved with
\* move_key, and an HTTPError of move_key leaves the loop and the method.
RECURSIVE MoveCheckpoints(_, _, _, _, _, _)
MoveCheckpoints(b, cps, old_name, old_path, new_name, new_path) ==
    IF cps = <<>> THEN Outcome(b, "ok", 0, <<>>)
    ELSE LET old_cp_path ==
                 Strip(GetCheckpointPath(Head(cps).id, old_name, old_path))
             new_cp_path ==
                 Strip(GetCheckpointPath(Head(cps).id, new_name, new_path))
         IN  Only({IF m.status # "ok" THEN Outcome(m.b, m.status, 2, <<>>)
                   ELSE MoveCheckpoints(m.b, Tail(cps), old_name, old_path,
                                        new_name, new_path) :
                   m \in {move_key(b, new_cp_path, old_cp_path)}})

\* A rename that leaves the conflict to move_key.
RenameUnchecked(b, script, new_os_path) == FALSE

\* rename_notebook's "Should we proceed with the move?": TRUE when it
\* raises HTTPError 409, for the new key or, with save_script, for the new
\* script key.
RenameConflict(b, script, new_os_path) ==
    \/ key_exists(b, new_os_path)
    \/ script /\ key_exists(b, PyPath(new_os_path))

\* A move of the notebook whose HTTPError reaches the caller as it is.
RenameMoveUnwrapped(b, new_os_path, old_os_path) ==
    Only({Outcome(m.b, m.status, IF m.status = "ok" THEN 0 ELSE 1, <<>>) :
          m \in {move_key(b, new_os_path, old_os_path)}})

\* rename_notebook's try: move_key ... except Exception: raise
\* web.HTTPError(500, ...)
RenameMove(b, new_os_path, old_os_path) ==
    Only({IF m.status # "ok" THEN Outcome(m.b, "500", 1, <<>>) ELSE m :
          m \in {move_key(b, new_os_path, old_os_path)}})

\* S3NotebookManager.rename_notebook.  step: 0 the pre-checks, 1 the move of
\* the notebook, 2 the move of its checkpoint, 3 the move of its script.
\* m1, m2 and m3 are the outcomes of the three moves.
rename_notebook(b, script, old_name, old_path, new_name, new_path) ==
    IF new_name = old_name /\ new_path = old_path
    THEN Outcome(b, "ok", 0, <<>>)
    ELSE
    LET new_os_path == GetOsPath(new_name, new_path)
        old_os_path == GetOsPath(old_name, old_path)
        old_py_path == PyPath(old_os_path)
        new_py_path == PyPath(new_os_path)
    IN  IF RenameConflict(b, script, new_os_path)
        THEN Outcome(b, "409", 0, <<>>)
        ELSE
        Only({
          IF m1.status # "ok" THEN m1
          ELSE
          Only({
            IF m2.status # "ok" THEN m2
            ELSE IF ~script THEN Outcome(m2.b, "ok", 0, <<>>)
            ELSE Only({IF m3.status # "ok"
                       THEN Outcome(m3.b, m3.status, 3, <<>>)
                       ELSE Outcome(m3.b, "ok", 0, <<>>) :
                       m3 \in {move_key(m2.b, new_py_path, old_py_path)}}) :
            m2 \in {MoveCheckpoints(m1.b,
                        list_checkpoints(m1.b, old_name, old_path),
                        old_name, old_path, new_name, new_path)}}) :
          m1 \in {RenameMove(b, new_os_path, old_os_path)}})

-----------------------------------------------------------------------------
(* Save *)

\* The model save_notebook receives: 'content', 'name' and 'path' may each
\* be missing from the dict.
NoModel ==
    [has_content |-> FALSE, content |-> NoNb, has_name |-> FALSE,
     name |-> <<>>, has_path |-> FALSE, path |-> <<>>]

\* save_notebook's line
\*   self.log.info('renaming notebook %s %s->%s %s' (path, name, ...))
\* calls a string literal: it raises TypeError whenever it is reached.
RenamingLogRaises == TRUE

\* current.to_notebook_json(model['content']); signing is the host's and
\* leaves the modelled fields alone.
to_notebook_json(content) == content

\* A save that takes any dict for a payload.
SaveContentUnchecked(model) == FALSE

\* save_notebook's "if 'content' not in model": TRUE when it raises
\* HTTPError 400.
SaveLacksContent(model) == ~model.has_content

\* A save that never takes the checkpoint.
SaveCheckpointSkipped(b, name, path) == Outcome(b, "ok", 0, <<>>)

\* A save that takes the checkpoint whenever none is listed, whether or
\* not the notebook exists.
SaveCheckpointAlways(b, name, path) ==
    IF list_checkpoints(b, name, path) = <<>>
    THEN create_checkpoint(b, name, path)
    ELSE Outcome(b, "ok", 0, <<>>)

\* save_notebook's "One checkpoint should always exist": a notebook that
\* exists and has no checkpoint gets one before anything is written.
SaveCheckpoint(b, name, path) ==
    IF notebook_exists(b, name, path) /\ list_checkpoints(b, name, path) = <<>>
    THEN create_checkpoint(b, name, path)
    ELSE Outcome(b, "ok", 0, <<>>)

\* S3NotebookManager.save_notebook.  step: 0 the payload check, 1 the
\* checkpoint, 2 the rename, 3 the write, 4 the script, 5 the final read.
\* c is the outcome of the checkpoint, r of the rename, b4 the bucket after
\* the writes and g the outcome of the final get_notebook.
save_notebook(b, script, model, name, path0) ==
    LET path == Strip(path0)
        new_path == IF model.has_path THEN model.path ELSE path
        new_name == IF model.has_name THEN model.name ELSE name
        os_path == GetOsPath(new_name, new_path)
        nb == BlankName(to_notebook_json(model.content))
    IN  IF SaveLacksContent(model) THEN Outcome(b, "400", 0, <<>>)
        ELSE
        Only({
          IF c.status # "ok" THEN Outcome(c.b, c.status, 1, <<>>)
          ELSE
          Only({
            IF r.status # "ok" THEN Outcome(r.b, r.status, 2, <<>>)
            ELSE
            Only({
              Only({IF g.status # "ok" THEN Outcome(b4, g.status, 5, <<>>)
                    ELSE Outcome(b4, "ok", 0, g.ret) :
                    g \in {get_notebook(b4, new_name, new_path, FALSE)}}) :
              b4 \in {IF script
                      THEN new_key_from_string(
                               new_key_from_string(r.b, os_path,
                                                   Writes(nb, "json")),
                               PyPath(os_path), Writes(nb, "py"))
                      ELSE new_key_from_string(r.b, os_path,
                                               Writes(nb, "json"))}}) :
            r \in {IF path # new_path \/ name # new_name
                   THEN IF RenamingLogRaises
                        THEN Outcome(c.b, "TypeError", 2, <<>>)
                        ELSE rename_notebook(c.b, script, name, path,
                                             new_name, new_path)
                   ELSE Outcome(c.b, "ok", 0, <<>>)}}) :
          c \in {SaveCheckpoint(b, name, path)}})

-----------------------------------------------------------------------------
(* The state machine *)

\* The keys a bucket may hold when the manager is constructed.
NotebookKeys == {GetOsPath(r[1], r[2]) : r \in Refs}
CheckpointKeys == {GetCheckpointPath(checkpoint_id, r[1], r[2]) : r \in Refs}
ScriptKeys == {PyPath(k) : k \in NotebookKeys}

\* What these keys may hold then: a saved notebook or bytes that do not
\* decode; a script; the empty marker.
SavedNbs == {BlankName(nb) : nb \in PayloadNbs}
InitNotebookBytes == {Writes(nb, "json") : nb \in SavedNbs} \cup {RawBytes}
InitScriptBytes == {Writes(nb, "py") : nb \in {<<1, "absent">>}}

\* The payloads save_notebook is called with.
Models ==
    {[has_content |-> c \in PayloadNbs, content |-> c,
      has_name |-> n # <<>>, name |-> n,
      has_path |-> p # <<"-">>, path |-> IF p = <<"-">> THEN <<>> ELSE p] :
        c \in PayloadNbs \cup {NoNb},
        n \in RefNames \cup {<<>>},
        p \in RefPaths \cup {<<"-">>}}

\* What `last` records of a call: the operation, its arguments, its status,
\* the step that raised and what it returned.
Call(op, name, path, new_name, new_path, cid, model, content, o) ==
    [op |-> op, name |-> name, path |-> path, new_name |-> new_name,
     new_path |-> new_path, cid |-> cid, model |-> model,
     content |-> content, status |-> o.status, step |-> o.step,
     ret |-> o.ret]

\* No call is recorded: the host has read the result of the last one.
NoCall ==
    Call("none", <<>>, <<>>, <<>>, <<>>, <<>>, NoModel, FALSE,
         Outcome(<<>>, "ok", 0, <<>>))

\* `hist` remembers a successful rename over the next call: "armed" once
\* its result is read, "undone" when the next call is the reverse rename
\* and succeeds; b is the bucket before the first rename.
NoHist ==
    [phase |-> "none", name |-> <<>>, path |-> <<>>, new_name |-> <<>>,
     new_path |-> <<>>, b |-> <<>>]

Init ==
    /\ save_script \in BOOLEAN
    /\ \E S \in SUBSET (NotebookKeys \cup CheckpointKeys) :
       \E f \in [S -> InitNotebookBytes] :
       \E T \in SUBSET (IF save_script THEN ScriptKeys ELSE {}) :
       \E g \in [T -> InitScriptBytes] :
       \E M \in SUBSET {checkpoint_dir} :
           bucket = f @@ g @@ [k \in M |-> EmptyBytes]
    /\ prev = bucket
    /\ hist = NoHist
    /\ last = NoCall
    /\ procs = <<>>

\* Calls run one at a time and to completion: a call starts when the result
\* of the one before has been read.
Idle == last.op = "none"

\* One completed call: the bucket it leaves, the bucket it found, and the
\* record of it.
Done(o, call) ==
    /\ bucket' = o.b
    /\ prev' = bucket
    /\ last' = call
    /\ UNCHANGED <<save_script, procs>>

SaveNotebook ==
    /\ Idle
    /\ \E r \in Refs : \E model \in Models :
        \E o \in {save_notebook(bucket, save_script, model, r[1], r[2])} :
            /\ Done(o, Call("save", r[1], r[2], <<>>, <<>>, <<>>, model,
                            FALSE, o))
            /\ hist' = NoHist

RenameNotebook ==
    /\ Idle
    /\ \E r \in Refs : \E n \in Refs :
        \E o \in {rename_notebook(bucket, save_script, r[1], r[2], n[1], n[2])} :
            /\ Done(o, Call("rename", r[1], r[2], n[1], n[2], <<>>, NoModel,
                            FALSE, o))
            /\ hist' = IF /\ hist.phase = "armed"
                          /\ o.status = "ok"
                          /\ hist.name = n[1] /\ hist.path = n[2]
                          /\ hist.new_name = r[1] /\ hist.new_path = r[2]
                       THEN [hist EXCEPT !.phase = "undone"]
                       ELSE NoHist

DeleteNotebook ==
    /\ Idle
    /\ \E r \in Refs :
        \E o \in {delete_notebook(bucket, r[1], r[2])} :
            /\ Done(o, Call("delete", r[1], r[2], <<>>, <<>>, <<>>, NoModel,
                            FALSE, o))
            /\ hist' = NoHist

CreateCheckpoint ==
    /\ Idle
    /\ \E r \in Refs :
        \E o \in {create_checkpoint(bucket, r[1], r[2])} :
            /\ Done(o, Call("create_checkpoint", r[1], r[2], <<>>, <<>>,
                            <<>>, NoModel, FALSE, o))
            /\ hist' = NoHist

RestoreCheckpoint ==
    /\ Idle
    /\ \E r \in Refs : \E cid \in CheckpointIds :
        \E o \in {restore_checkpoint(bucket, cid, r[1], r[2])} :
            /\ Done(o, Call("restore_checkpoint", r[1], r[2], <<>>, <<>>,
                            cid, NoModel, FALSE, o))
            /\ hist' = NoHist

DeleteCheckpoint ==
    /\ Idle
    /\ \E r \in Refs : \E cid \in CheckpointIds :
        \E o \in {delete_checkpoint(bucket, cid, r[1], r[2])} :
            /\ Done(o, Call("delete_checkpoint", r[1], r[2], <<>>, <<>>,
                            cid, NoModel, FALSE, o))
            /\ hist' = NoHist

GetNotebook ==
    /\ Idle
    /\ \E r \in Refs : \E content \in BOOLEAN :
        \E o \in {get_notebook(bucket, r[1], r[2], content)} :
            /\ Done(o, Call("get", r[1], r[2], <<>>, <<>>, <<>>, NoModel,
                            content, o))
            /\ hist' = NoHist

ListCheckpoints ==
    /\ Idle
    /\ \E r \in Refs :
        \E o \in {Outcome(bucket, "ok", 0,
                        list_checkpoints(bucket, r[1], r[2]))} :
            /\ Done(o, Call("list_checkpoints", r[1], r[2], <<>>, <<>>,
                            <<>>, NoModel, FALSE, o))
            /\ hist' = NoHist

\* The host reads the result: the record of the call is dropped.  A
\* successful rename to another document stays remembered in `hist`.
Return ==
    /\ last.op # "none"
    /\ last' = NoCall
    /\ prev' = bucket
    /\ hist' = IF /\ last.op = "rename" /\ last.status = "ok"
                  /\ <<last.name, last.path>> # <<last.new_name, last.new_path>>
                  /\ hist.phase = "none"
               THEN [phase |-> "armed", name |-> last.name,
                     path |-> last.path, new_name |-> last.new_name,
                     new_path |-> last.new_path, b |-> prev]
               ELSE NoHist
    /\ UNCHANGED <<bucket, save_script, procs>>

Next ==
    \/ SaveNotebook
    \/ RenameNotebook
    \/ DeleteNotebook
    \/ CreateCheckpoint
    \/ RestoreCheckpoint
    \/ DeleteCheckpoint
    \/ GetNotebook
    \/ ListCheckpoints
    \/ Return

Spec == Init /\ [][Next]_vars

-----------------------------------------------------------------------------
(* The manager on a bucket that starts empty: every object in it has been  *)
(* put there by a handler.                                                 *)

\* Two documents of the root directory; the name of the second is the
\* name of the first with "-x" before the extension.
NameAX == <<"a", "-", "x">> \o filename_ext
FreshRefs == {<<NameA, PathRoot>>, <<NameAX, PathRoot>>}

\* An id the manager never issues, chosen so that the checkpoint key of
\* a.ipynb for this id is the checkpoint key of a-x.ipynb for the id
\* "checkpoint".
foreign_id == <<"x", "-">> \o checkpoint_id
FreshIds == {checkpoint_id, other_id, foreign_id}

\* The payloads of the saves: content or none, no name and no path.
FreshModels ==
    {[NoModel EXCEPT !.has_content = c \in PayloadNbs, !.content = c] :
        c \in PayloadNbs \cup {NoNb}}

InitFresh ==
    /\ save_script \in BOOLEAN
    /\ bucket = [k \in {} |-> EmptyBytes]
    /\ prev = bucket
    /\ hist = NoHist
    /\ last = NoCall
    /\ procs = <<>>

\* A completed call of SpecFresh: no rename is remembered.
FreshDone(o, call) == Done(o, call) /\ hist' = NoHist

FreshSave ==
    /\ Idle
    /\ \E r \in FreshRefs : \E model \in FreshModels :
        \E o \in {save_notebook(bucket, save_script, model, r[1], r[2])} :
            FreshDone(o, Call("save", r[1], r[2], <<>>, <<>>, <<>>, model,
                              FALSE, o))

FreshRename ==
    /\ Idle
    /\ \E r \in FreshRefs : \E n \in FreshRefs :
        \E o \in {rename_notebook(bucket, save_script, r[1], r[2], n[1], n[2])} :
            FreshDone(o, Call("rename", r[1], r[2], n[1], n[2], <<>>,
                              NoModel, FALSE, o))

FreshDelete ==
    /\ Idle
    /\ \E r \in FreshRefs :
        \E o \in {delete_notebook(bucket, r[1], r[2])} :
            FreshDone(o, Call("delete", r[1], r[2], <<>>, <<>>, <<>>,
                              NoModel, FALSE, o))

FreshCreateCheckpoint ==
    /\ Idle
    /\ \E r \in FreshRefs :
        \E o \in {create_checkpoint(bucket, r[1], r[2])} :
            FreshDone(o, Call("create_checkpoint", r[1], r[2], <<>>, <<>>,
                              <<>>, NoModel, FALSE, o))

FreshRestoreCheckpoint ==
    /\ Idle
    /\ \E r \in FreshRefs : \E cid \in FreshIds :
        \E o \in {restore_checkpoint(bucket, cid, r[1], r[2])} :
            FreshDone(o, Call("restore_checkpoint", r[1], r[2], <<>>, <<>>,
                              cid, NoModel, FALSE, o))

FreshDeleteCheckpoint ==
    /\ Idle
    /\ \E r \in FreshRefs : \E cid \in FreshIds :
        \E o \in {delete_checkpoint(bucket, cid, r[1], r[2])} :
            FreshDone(o, Call("delete_checkpoint", r[1], r[2], <<>>, <<>>,
                              cid, NoModel, FALSE, o))

\* The host reads the result.
FreshReturn ==
    /\ last.op # "none"
    /\ last' = NoCall
    /\ prev' = bucket
    /\ UNCHANGED <<bucket, save_script, hist, procs>>

NextFresh ==
    \/ FreshSave
    \/ FreshRename
    \/ FreshDelete
    \/ FreshCreateCheckpoint
    \/ FreshRestoreCheckpoint
    \/ FreshDeleteCheckpoint
    \/ FreshReturn

SpecFresh == InitFresh /\ [][NextFresh]_vars

-----------------------------------------------------------------------------
(* The path resolver alone: _get_os_path applied to the addresses of two   *)
(* documents, and then to a key it returned.                               *)

\* Names as the handlers receive them, and one with a leading separator.
AddressNames == {NameA, NameB, NameAX, <<Slash>> \o NameA}

\* API paths: the root and directories d, e and d/e, written with and
\* without leading and trailing separators.
AddressPaths ==
    {<<>>, <<Slash>>, <<"d">>, <<Slash, "d">>, <<"d", Slash>>,
     <<Slash, "d", Slash>>, <<"e">>, <<"d", Slash, "e">>,
     <<Slash, "d", Slash, "e", Slash>>}

\* _get_os_path(n1, p1) and _get_os_path(n2, p2) are computed.
ResolvePair ==
    /\ Idle
    /\ \E n1 \in AddressNames : \E p1 \in AddressPaths :
       \E n2 \in AddressNames : \E p2 \in AddressPaths :
        \E o \in {Outcome(bucket, "ok", 0,
                           <<GetOsPath(n1, p1), GetOsPath(n2, p2)>>)} :
            FreshDone(o, Call("_get_os_path", n1, p1, n2, p2, <<>>, NoModel,
                              FALSE, o))

\* The first key returned is fed back as the path: _get_os_path(path=key).
ResolveAgain ==
    /\ last.op = "_get_os_path"
    /\ \E o \in {Outcome(bucket, "ok", 0,
                           <<GetOsPath(<<>>, last.ret[1])>>)} :
            FreshDone(o, Call("_get_os_path of key", <<>>, last.ret[1],
                              last.name, last.path, <<>>, NoModel, FALSE, o))

NextPaths ==
    \/ ResolvePair
    \/ ResolveAgain

SpecPaths == InitFresh /\ [][NextPaths]_vars

-----------------------------------------------------------------------------
(* The listings, on the buckets over the objects of a small tree.          *)

\* The key of rel under notebook_dir; rel = <<>> gives the marker of
\* notebook_dir itself.
UnderRoot(rel) == Strip(notebook_dir) \o <<Slash>> \o rel

NameX == <<"x">> \o filename_ext

\* The tree: the marker of the root; directory a with its marker, its
\* notebook x.ipynb and its subdirectory e with a notebook; the hidden
\* directory .hidden; and, in the root, notebook a.ipynb.
TreeMarkers ==
    {UnderRoot(<<>>), UnderRoot(<<"a", Slash>>),
     UnderRoot(<<"a", Slash, "e", Slash>>),
     UnderRoot(<<Dot, "h", "i", "d", "d", "e", "n", Slash>>)}
TreeNotebooks ==
    {UnderRoot(NameA), UnderRoot(<<"a", Slash>> \o NameX),
     UnderRoot(<<"a", Slash, "e", Slash>> \o NameX)}

\* The API paths the listings are asked for.
ListPaths == {<<>>, <<"a">>, <<"a", Slash, "e">>}

InitTree ==
    /\ save_script = FALSE
    /\ \E M \in SUBSET TreeMarkers : \E N \in SUBSET TreeNotebooks :
           bucket = [k \in M |-> EmptyBytes]
                    @@ [k \in N |-> Writes(<<1, "absent">>, "json")]
    /\ prev = bucket
    /\ hist = NoHist
    /\ last = NoCall
    /\ procs = <<>>

GetNotebookNames ==
    /\ Idle
    /\ \E path \in ListPaths :
        \E o \in {Outcome(bucket, "ok", 0, get_notebook_names(bucket, path))} :
            FreshDone(o, Call("get_notebook_names", <<>>, path, <<>>, <<>>,
                              <<>>, NoModel, FALSE, o))

ListDirs ==
    /\ Idle
    /\ \E path \in ListPaths :
        \E o \in {list_dirs(bucket, path)} :
            FreshDone(o, Call("list_dirs", <<>>, path, <<>>, <<>>, <<>>,
                              NoModel, FALSE, o))

NextTree ==
    \/ GetNotebookNames
    \/ ListDirs

SpecTree == InitTree /\ [][NextTree]_vars

-----------------------------------------------------------------------------
(* delete_notebook and rename_notebook one store call at a time: two       *)
(* handlers, each in a server process of its own, work on one bucket.      *)
(* Script export is off, as it is by default.  `prev` stays the bucket the *)
(* handlers found.                                                         *)

Procs == {1, 2}

\* The documents: A and B exist or not, C is where the renames go.
DocA == <<NameA, PathRoot>>
DocB == <<NameB, PathD>>
DocC == <<NameX, PathRoot>>

\* A handler in progress: its arguments, its position pc, the exception or
\* "ok" it ended with, the checkpoints its loop has still to visit, and
\* whether its move_key moves the notebook ("nb") or a checkpoint ("cp").
Handler(op, old, new) ==
    [op |-> op, name |-> old[1], path |-> old[2], new_name |-> new[1],
     new_path |-> new[2], pc |-> "start", status |-> "", cps |-> <<>>,
     phase |-> "nb"]

StepCalls ==
    {Handler("delete", DocA, DocA), Handler("delete", DocB, DocB),
     Handler("rename", DocA, DocC), Handler("rename", DocB, DocC)}

\* What the keys hold when they exist: each notebook key bytes of its own,
\* the checkpoint keys the empty string.
StepBytes ==
    (GetOsPath(DocA[1], DocA[2]) :> Writes(<<1, "absent">>, "json"))
    @@ (GetOsPath(DocB[1], DocB[2]) :> Writes(<<1, "">>, "json"))
    @@ (GetOsPath(DocC[1], DocC[2]) :> RawBytes)
    @@ [k \in {GetCheckpointPath(checkpoint_id, d[1], d[2]) :
                  d \in {DocA, DocB, DocC}} |-> EmptyBytes]

InitSteps ==
    /\ save_script = FALSE
    /\ \E S \in SUBSET (DOMAIN StepBytes) : bucket = [k \in S |-> StepBytes[k]]
    /\ prev = bucket
    /\ hist = NoHist
    /\ last = NoCall
    /\ procs \in [Procs -> StepCalls]

\* The keys of handler c, and those its move_key is called with.
OldKey(c) == GetOsPath(c.name, c.path)
NewKey(c) == GetOsPath(c.new_name, c.new_path)
OldCp(c) == GetCheckpointPath(Head(c.cps).id, c.name, c.path)
MoveNew(c) ==
    IF c.phase = "nb" THEN Strip(NewKey(c))
    ELSE Strip(GetCheckpointPath(Head(c.cps).id, c.new_name, c.new_path))
MoveOld(c) == IF c.phase = "nb" THEN Strip(OldKey(c)) ELSE Strip(OldCp(c))

\* The handler ends: it returns, or an exception leaves it.
Ends(c, status) == [c EXCEPT !.pc = "done", !.status = status]

\* An exception leaves move_key: rename_notebook turns it into HTTPError
\* 500 around the move of the notebook and lets it pass around the move of
\* a checkpoint.
MoveRaises(c, status) == Ends(c, IF c.phase = "nb" THEN "500" ELSE status)

\* list_checkpoints has returned cps: delete_notebook goes on to its loop
\* and then to the notebook, rename_notebook to the moves of the
\* checkpoints and then returns.
AfterList(c, cps) ==
    IF c.op = "delete"
    THEN [c EXCEPT !.cps = cps,
                   !.pc = IF cps = <<>> THEN "unlink" ELSE "loop"]
    ELSE IF cps = <<>> THEN Ends(c, "ok")
    ELSE [c EXCEPT !.cps = cps, !.pc = "mv_check", !.phase = "cp"]

\* The loop of delete_notebook is done with a checkpoint.
NextCheckpoint(c) ==
    [c EXCEPT !.cps = Tail(c.cps),
              !.pc = IF Tail(c.cps) = <<>> THEN "unlink" ELSE "loop"]

\* One store call of handler p: it leaves the handler as c and the bucket
\* as b.
StepDone(p, c, b) ==
    /\ procs' = [procs EXCEPT ![p] = c]
    /\ bucket' = b
    /\ UNCHANGED <<save_script, last, prev, hist>>

\* A delete that unlinks the notebook where the checkpoint is to go.
UnlinkNotebookFirst(b, c) == delete_key(b, OldKey(c))

\* delete_notebook: self.bucket.delete_key(cp_path)
UnlinkCheckpoint(b, c) == delete_key(b, OldCp(c))

\* delete_notebook: if not key_exists(self.bucket, os_path): raise 404
DeleteStart ==
    \E p \in Procs :
        /\ procs[p].op = "delete" /\ procs[p].pc = "start"
        /\ StepDone(p, IF key_exists(bucket, OldKey(procs[p]))
                       THEN [procs[p] EXCEPT !.pc = "list"]
                       ELSE Ends(procs[p], "404"),
                    bucket)

\* rename_notebook: the early return and the pre-check of the new key
RenameStart ==
    \E p \in Procs :
        /\ procs[p].op = "rename" /\ procs[p].pc = "start"
        /\ StepDone(p, IF /\ procs[p].new_name = procs[p].name
                          /\ procs[p].new_path = procs[p].path
                       THEN Ends(procs[p], "ok")
                       ELSE IF RenameConflict(bucket, save_script,
                                              NewKey(procs[p]))
                       THEN Ends(procs[p], "409")
                       ELSE [procs[p] EXCEPT !.pc = "mv_check"],
                    bucket)

\* list_checkpoints: if not key_exists(self.bucket, os_path): return []
ListExists ==
    \E p \in Procs :
        /\ procs[p].pc = "list"
        /\ StepDone(p, IF key_exists(bucket,
                              GetCheckpointPath(checkpoint_id, procs[p].name,
                                                procs[p].path))
                       THEN [procs[p] EXCEPT !.pc = "list_model"]
                       ELSE AfterList(procs[p], <<>>),
                    bucket)

\* get_checkpoint_model: key = self.bucket.get_key(cp_path), then
\* key.last_modified, an AttributeError when the key is gone.
ListModel ==
    \E p \in Procs :
        /\ procs[p].pc = "list_model"
        /\ StepDone(p, IF key_exists(bucket,
                              GetCheckpointPath(checkpoint_id, procs[p].name,
                                                procs[p].path))
                       THEN AfterList(procs[p],
                                <<get_checkpoint_model(checkpoint_id,
                                      procs[p].name, procs[p].path)>>)
                       ELSE Ends(procs[p], "AttributeError"),
                    bucket)

\* delete_notebook's loop: if key_exists(self.bucket, cp_path)
DeleteLoop ==
    \E p \in Procs :
        /\ procs[p].pc = "loop"
        /\ StepDone(p, IF key_exists(bucket, OldCp(procs[p]))
                       THEN [procs[p] EXCEPT !.pc = "unlink_cp"]
                       ELSE NextCheckpoint(procs[p]),
                    bucket)

DeleteUnlinkCheckpoint ==
    \E p \in Procs :
        /\ procs[p].pc = "unlink_cp"
        /\ StepDone(p, NextCheckpoint(procs[p]),
                    UnlinkCheckpoint(bucket, procs[p]))

\* delete_notebook: self.bucket.delete_key(os_path)
DeleteUnlinkNotebook ==
    \E p \in Procs :
        /\ procs[p].pc = "unlink"
        /\ StepDone(p, Ends(procs[p], "ok"),
                    delete_key(bucket, OldKey(procs[p])))

\* move_key: if key_exists(bucket, new_name): raise 409
MoveCheckNew ==
    \E p \in Procs :
        /\ procs[p].pc = "mv_check"
        /\ StepDone(p, IF key_exists(bucket, MoveNew(procs[p]))
                       THEN MoveRaises(procs[p], "409")
                       ELSE [procs[p] EXCEPT !.pc = "mv_get"],
                    bucket)

\* move_key: old_key = bucket.get_key(...); if old_key == None: raise 409
MoveGetOld ==
    \E p \in Procs :
        /\ procs[p].pc = "mv_get"
        /\ StepDone(p, IF ~key_exists(bucket, MoveOld(procs[p]))
                       THEN MoveRaises(procs[p], "409")
                       ELSE [procs[p] EXCEPT !.pc = "mv_copy"],
                    bucket)

\* move_key: bucket.copy_key(new_name, bucket.name, old_name)
MoveCopy ==
    \E p \in Procs :
        /\ procs[p].pc = "mv_copy"
        /\ \E o \in {copy_key(bucket, MoveNew(procs[p]), MoveOld(procs[p]))} :
               StepDone(p, IF o.status # "ok"
                           THEN MoveRaises(procs[p], o.status)
                           ELSE [procs[p] EXCEPT !.pc = "mv_delete"],
                        o.b)

\* move_key: bucket.delete_key(old_key); then, after the notebook,
\* list_checkpoints, and after a checkpoint the next one or the return.
MoveDelete ==
    \E p \in Procs :
        /\ procs[p].pc = "mv_delete"
        /\ StepDone(p, IF procs[p].phase = "nb"
                       THEN [procs[p] EXCEPT !.pc = "list"]
                       ELSE IF Tail(procs[p].cps) = <<>>
                       THEN Ends([procs[p] EXCEPT !.cps = <<>>], "ok")
                       ELSE [procs[p] EXCEPT !.cps = Tail(procs[p].cps),
                                             !.pc = "mv_check"],
                    delete_key(bucket, MoveOld(procs[p])))

NextSteps ==
    \/ DeleteStart
    \/ RenameStart
    \/ ListExists
    \/ ListModel
    \/ DeleteLoop
    \/ DeleteUnlinkCheckpoint
    \/ DeleteUnlinkNotebook
    \/ MoveCheckNew
    \/ MoveGetOld
    \/ MoveCopy
    \/ MoveDelete

SpecSteps == InitSteps /\ [][NextSteps]_vars

-----------------------------------------------------------------------------
(* The handlers that change the bucket, one at a time and to completion,   *)
(* from an empty bucket and with script export off.                        *)

\* A document saved in the checkpoint directory of the root under the name
\* a-checkpoint.ipynb: its key is the checkpoint key of a.ipynb.
NameACp == <<"a", "-">> \o checkpoint_id \o filename_ext
DocH == <<NameACp, Strip(checkpoint_dir)>>

\* The documents: a.ipynb of the root, b.ipynb of d, and DocH.
DocRefs == {DocA, DocB, DocH}

\* The payloads: content or none, with no name and no path, and one that
\* names b.ipynb of d.
DocModels ==
    FreshModels
    \cup {[has_content |-> TRUE, content |-> <<1, "absent">>,
           has_name |-> TRUE, name |-> NameB,
           has_path |-> TRUE, path |-> PathD]}

\* In SpecDocs `hist` only tells, in its phase, whether a handler has been
\* called on a document that lies in a checkpoint directory.
HiddenCalled == [NoHist EXCEPT !.phase = "hidden"]

InitDocs ==
    /\ save_script = FALSE
    /\ bucket = [k \in {} |-> EmptyBytes]
    /\ prev = bucket
    /\ hist = NoHist
    /\ last = NoCall
    /\ procs = <<>>

\* A completed call of SpecDocs on the documents of R.
DocsDone(o, call, R) ==
    /\ Done(o, call)
    /\ hist' = IF DocH \in R THEN HiddenCalled ELSE hist

DocsSave ==
    /\ Idle
    /\ \E r \in DocRefs : \E model \in DocModels :
        \E o \in {save_notebook(bucket, save_script, model, r[1], r[2])} :
            DocsDone(o, Call("save", r[1], r[2], <<>>, <<>>, <<>>, model,
                             FALSE, o), {r})

DocsRename ==
    /\ Idle
    /\ \E r \in DocRefs : \E n \in DocRefs :
        \E o \in {rename_notebook(bucket, save_script, r[1], r[2], n[1], n[2])} :
            DocsDone(o, Call("rename", r[1], r[2], n[1], n[2], <<>>,
                             NoModel, FALSE, o), {r, n})

DocsDelete ==
    /\ Idle
    /\ \E r \in DocRefs :
        \E o \in {delete_notebook(bucket, r[1], r[2])} :
            DocsDone(o, Call("delete", r[1], r[2], <<>>, <<>>, <<>>,
                             NoModel, FALSE, o), {r})

DocsCreateCheckpoint ==
    /\ Idle
    /\ \E r \in DocRefs :
        \E o \in {create_checkpoint(bucket, r[1], r[2])} :
            DocsDone(o, Call("create_checkpoint", r[1], r[2], <<>>, <<>>,
                             <<>>, NoModel, FALSE, o), {r})

DocsRestoreCheckpoint ==
    /\ Idle
    /\ \E r \in DocRefs : \E cid \in CheckpointIds :
        \E o \in {restore_checkpoint(bucket, cid, r[1], r[2])} :
            DocsDone(o, Call("restore_checkpoint", r[1], r[2], <<>>, <<>>,
                             cid, NoModel, FALSE, o), {r})

DocsDeleteCheckpoint ==
    /\ Idle
    /\ \E r \in DocRefs : \E cid \in CheckpointIds :
        \E o \in {delete_checkpoint(bucket, cid, r[1], r[2])} :
            DocsDone(o, Call("delete_checkpoint", r[1], r[2], <<>>, <<>>,
                             cid, NoModel, FALSE, o), {r})

NextDocs ==
    \/ DocsSave
    \/ DocsRename
    \/ DocsDelete
    \/ DocsCreateCheckpoint
    \/ DocsRestoreCheckpoint
    \/ DocsDeleteCheckpoint
    \/ FreshReturn

SpecDocs == InitDocs /\ [][NextDocs]_vars

-----------------------------------------------------------------------------
(* Properties.  In a state where `last` records a call, `prev` is the      *)
(* bucket the call found and `bucket` the bucket it left.                  *)

\* Keys of the call `last` records: the notebook and checkpoint keys of the
\* document it was called on and of the document a rename was to produce.
LastKey == GetOsPath(last.name, last.path)
LastCpKey == GetCheckpointPath(checkpoint_id, last.name, last.path)
LastNewKey == GetOsPath(last.new_name, last.new_path)
LastNewCpKey == GetCheckpointPath(checkpoint_id, last.new_name, last.new_path)

\* The rename `last` records names two distinct documents.
RenameToOther ==
    /\ last.op = "rename"
    /\ <<last.name, last.path>> # <<last.new_name, last.new_path>>

\* The save `last` records carries content and keeps the name and the path
\* it was called with.
SaveInPlace ==
    /\ last.op = "save"
    /\ last.model.has_content
    /\ last.model.has_name => last.model.name = last.name
    /\ last.model.has_path => last.model.path = Strip(last.path)

\* The bytes save_notebook is to leave for the payload of `last`: the JSON
\* form of its notebook, the metadata name blanked when there is one.
SavedBytes ==
    <<"json", last.model.content[1],
      IF last.model.content[2] = "absent" THEN "absent" ELSE "">>

\* Key k holds the same in buckets b1 and b2: absent in both, or the same
\* bytes.
SameAt(b1, b2, k) ==
    /\ (k \in DOMAIN b1) = (k \in DOMAIN b2)
    /\ k \in DOMAIN b1 => b1[k] = b2[k]

\* C1: a rename of document A to another document B at whose key an object
\* already exists fails with 409 and leaves the whole bucket as it was.
C1_RenameConflictLeavesStore ==
    (RenameToOther /\ LastNewKey \in DOMAIN prev)
        => (last.status = "409" /\ bucket = prev)

\* C1's case: such a rename of a notebook that existed and had a checkpoint.
C1_Witness ==
    /\ RenameToOther
    /\ LastNewKey \in DOMAIN prev
    /\ LastKey \in DOMAIN prev
    /\ LastCpKey \in DOMAIN prev
    /\ last.status = "409"

\* After rename(A -> B) and then rename(B -> A), both successful: `last` is
\* the second rename, so A is its new document and B its old one, and
\* hist.b is the bucket before the first.
RenamedBack == hist.phase = "undone" /\ last.op = "rename"

\* What C2 promises of a rename and its reverse: A's notebook and A's
\* checkpoint slot hold what they held, and nothing is left at B's notebook
\* key or checkpoint key.
RoundTripRestores ==
    /\ SameAt(bucket, hist.b, LastNewKey)
    /\ LastNewKey \in DOMAIN bucket
    /\ SameAt(bucket, hist.b, LastNewCpKey)
    /\ LastKey \notin DOMAIN bucket
    /\ LastCpKey \notin DOMAIN bucket

\* C2 as stated: for A existing and B's notebook key free, rename(A -> B)
\* then rename(B -> A), both succeeding, restores A and its checkpoint slot
\* and leaves nothing at B's keys.
C2_Original == RenamedBack => RoundTripRestores

\* C2, amended: the same when B's checkpoint key is free too before the
\* first rename.
C2_RenameRoundTrip ==
    (RenamedBack /\ LastCpKey \notin DOMAIN hist.b) => RoundTripRestores

\* C2's case: a round trip of a notebook that had a checkpoint holding
\* other bytes than the notebook.
C2_Witness ==
    /\ RenamedBack
    /\ LastCpKey \notin DOMAIN hist.b
    /\ LastNewCpKey \in DOMAIN hist.b
    /\ hist.b[LastNewCpKey] # hist.b[LastNewKey]

\* C3: a save in place of a notebook that exists and has no checkpoint
\* succeeds; afterwards exactly one checkpoint is listed, it holds the
\* bytes the notebook held before the save, and the notebook holds the
\* newly saved bytes.
C3_SaveCheckpointsOldContent ==
    (SaveInPlace /\ LastKey \in DOMAIN prev /\ LastCpKey \notin DOMAIN prev)
        => /\ last.status = "ok"
           /\ Len(list_checkpoints(bucket, last.name, last.path)) = 1
           /\ LastCpKey \in DOMAIN bucket
           /\ bucket[LastCpKey] = prev[LastKey]
           /\ LastKey \in DOMAIN bucket
           /\ bucket[LastKey] = SavedBytes

\* C3's case: such a save whose new bytes differ from the old ones.
C3_Witness ==
    /\ SaveInPlace
    /\ LastKey \in DOMAIN prev
    /\ LastCpKey \notin DOMAIN prev
    /\ last.status = "ok"
    /\ prev[LastKey] # SavedBytes
    /\ bucket[LastCpKey] # bucket[LastKey]

\* What get_notebook(ref, content=True) returns for the document of `last`
\* in the bucket as it is now.
GetLast == get_notebook(bucket, last.name, last.path, TRUE)

\* C4: a first save in place, with nothing at the notebook key or the
\* checkpoint key, succeeds; afterwards the notebook exists, get_notebook
\* with content returns a model of type notebook carrying the saved
\* notebook (the payload's, its metadata name blanked when there is one),
\* and no checkpoint is listed.
C4_FirstSaveNoCheckpoint ==
    (SaveInPlace /\ LastKey \notin DOMAIN prev /\ LastCpKey \notin DOMAIN prev)
        => /\ last.status = "ok"
           /\ notebook_exists(bucket, last.name, last.path)
           /\ GetLast.status = "ok"
           /\ Len(GetLast.ret) = 1
           /\ GetLast.ret[1].type = "notebook"
           /\ GetLast.ret[1].content[1] = last.model.content[1]
           /\ GetLast.ret[1].content[2] =
                  (IF last.model.content[2] = "absent" THEN "absent" ELSE "")
           /\ list_checkpoints(bucket, last.name, last.path) = <<>>

\* C4's case: such a first save, of a notebook in a directory.
C4_Witness ==
    /\ SaveInPlace
    /\ LastKey \notin DOMAIN prev
    /\ LastCpKey \notin DOMAIN prev
    /\ last.path # <<>>
    /\ last.status = "ok"
    /\ GetLast.status = "ok"

\* The save `last` records is a save in place where no notebook was.
FirstSave == SaveInPlace /\ LastKey \notin DOMAIN prev

\* C5 as stated: after a save with no prior document the notebook exists
\* and list_checkpoints returns exactly one entry.
C5_Original ==
    FirstSave
        => /\ notebook_exists(bucket, last.name, last.path)
           /\ Len(list_checkpoints(bucket, last.name, last.path)) = 1

\* C5, amended: a save with no prior document succeeds, the notebook
\* exists afterwards and the save creates no checkpoint: the checkpoint key
\* holds what it held before, so list_checkpoints returns what it returned
\* before the save.
C5_FirstSaveCreatesNoCheckpoint ==
    FirstSave
        => /\ last.status = "ok"
           /\ notebook_exists(bucket, last.name, last.path)
           /\ SameAt(bucket, prev, LastCpKey)
           /\ list_checkpoints(bucket, last.name, last.path)
                  = list_checkpoints(prev, last.name, last.path)

\* C5's case: a first save of a notebook at the root, after which no
\* checkpoint is listed.
C5_Witness ==
    /\ FirstSave
    /\ last.path = <<>>
    /\ last.status = "ok"
    /\ list_checkpoints(bucket, last.name, last.path) = <<>>

\* C6: delete_notebook of a notebook that exists and has a checkpoint
\* succeeds and leaves neither the notebook key nor the checkpoint key;
\* delete_notebook of a notebook that does not exist fails with 404 and
\* changes nothing.
C6_DeleteRemovesCheckpoint ==
    /\ (last.op = "delete" /\ LastKey \in DOMAIN prev
                           /\ LastCpKey \in DOMAIN prev)
           => /\ last.status = "ok"
              /\ LastKey \notin DOMAIN bucket
              /\ LastCpKey \notin DOMAIN bucket
    /\ (last.op = "delete" /\ LastKey \notin DOMAIN prev)
           => (last.status = "404" /\ bucket = prev)

\* C6's case: a notebook with a checkpoint has been deleted.
C6_Witness ==
    /\ last.op = "delete"
    /\ LastKey \in DOMAIN prev
    /\ LastCpKey \in DOMAIN prev
    /\ last.status = "ok"

\* The checkpoint key restore_checkpoint resolves for the call of `last`.
LastRestoreKey == GetCheckpointPath(last.cid, last.name, last.path)

\* C7: restore_checkpoint of a checkpoint that exists but does not decode
\* fails and leaves the bucket, the notebook included, as it was; of one
\* that decodes it succeeds, the notebook then holds the checkpoint's bytes
\* and the checkpoint is still there, unchanged.
C7_RestoreChecksReadable ==
    (last.op = "restore_checkpoint" /\ LastRestoreKey \in DOMAIN prev)
        => IF prev[LastRestoreKey][1] # "json"
           THEN last.status # "ok" /\ bucket = prev
           ELSE /\ last.status = "ok"
                /\ LastKey \in DOMAIN bucket
                /\ bucket[LastKey] = prev[LastRestoreKey]
                /\ SameAt(bucket, prev, LastRestoreKey)

\* C7's case: a restore refused for a checkpoint that does not decode,
\* while the notebook holds bytes that do.
C7_Witness ==
    /\ last.op = "restore_checkpoint"
    /\ LastRestoreKey \in DOMAIN prev
    /\ prev[LastRestoreKey][1] # "json"
    /\ LastKey \in DOMAIN prev
    /\ prev[LastKey][1] = "json"
    /\ last.status = "NotJSONError"

\* The name, path and key the payload of the save `last` records asks for.
SaveNewName == IF last.model.has_name THEN last.model.name ELSE last.name
SaveNewPath ==
    IF last.model.has_path THEN last.model.path ELSE Strip(last.path)
SaveNewKey == GetOsPath(SaveNewName, SaveNewPath)

\* C8: a save whose payload names another document than the one it is
\* called on, the source existing and the destination key free, renames
\* and then writes: afterwards nothing is at the old key, the new key holds
\* the newly saved bytes and the save returns the model of the new
\* document.
C8_SaveRenamesThenWrites ==
    (/\ last.op = "save"
     /\ last.model.has_content
     /\ <<SaveNewName, SaveNewPath>> # <<last.name, Strip(last.path)>>
     /\ LastKey \in DOMAIN prev
     /\ SaveNewKey \notin DOMAIN prev)
        => /\ last.status = "ok"
           /\ LastKey \notin DOMAIN bucket
           /\ SaveNewKey \in DOMAIN bucket
           /\ bucket[SaveNewKey] = SavedBytes
           /\ last.ret = <<NotebookModel(SaveNewName, SaveNewPath, NoNb)>>

\* A rename of `last` that passes the pre-checks and finds its notebook,
\* and whose move of the checkpoint or of the script must fail: the
\* notebook has a checkpoint and the new checkpoint key is taken, or script
\* export is on and the notebook has no script.
RenameAuxiliaryFails ==
    /\ RenameToOther
    /\ LastKey \in DOMAIN prev
    /\ LastNewKey \notin DOMAIN prev
    /\ save_script => PyPath(LastNewKey) \notin DOMAIN prev
    /\ \/ LastCpKey \in DOMAIN prev /\ LastNewCpKey \in DOMAIN prev
       \/ save_script /\ PyPath(LastKey) \notin DOMAIN prev

\* C9: once the notebook has been moved, a failure to move the checkpoint
\* or the script is swallowed: the rename reports success and the notebook
\* is at the new key.
C9_AuxiliaryFailureSwallowed ==
    RenameAuxiliaryFails
        => /\ last.status = "ok"
           /\ LastNewKey \in DOMAIN bucket
           /\ bucket[LastNewKey] = prev[LastKey]

\* What C10 promises of a rename whose old notebook key does not exist: it
\* fails with 500 and the bucket is as it was.
RenameFailsAtMove == last.status = "500" /\ bucket = prev

\* C10 as stated: a rename whose old notebook key does not exist and whose
\* new key is free fails with 500 and changes nothing.
C10_Original ==
    (RenameToOther /\ LastKey \notin DOMAIN prev
                   /\ LastNewKey \notin DOMAIN prev)
        => RenameFailsAtMove

\* C10, amended: the same when, with script export on, the new script key
\* is free too.
C10_RenameOfMissingFails ==
    (/\ RenameToOther
     /\ LastKey \notin DOMAIN prev
     /\ LastNewKey \notin DOMAIN prev
     /\ save_script => PyPath(LastNewKey) \notin DOMAIN prev)
        => RenameFailsAtMove

\* C10's case: such a rename while a checkpoint of the old document is in
\* the bucket; it is still at its key afterwards.
C10_Witness ==
    /\ RenameToOther
    /\ LastKey \notin DOMAIN prev
    /\ LastNewKey \notin DOMAIN prev
    /\ LastCpKey \in DOMAIN prev
    /\ last.status = "500"
    /\ LastCpKey \in DOMAIN bucket
    /\ LastNewCpKey \notin DOMAIN bucket

\* C11: a save whose payload has no 'content' fails with 400 before any
\* store operation: no checkpoint is created, nothing is renamed and
\* nothing is written, so the bucket is as the call found it, whatever the
\* bucket and whatever the name and the path.
C11_SaveWithoutContentIs400 ==
    (last.op = "save" /\ ~last.model.has_content)
        => (last.status = "400" /\ bucket = prev)

\* C11's case: such a save on a notebook that exists and has no checkpoint,
\* with a payload that names another document: a save that went on would
\* take the checkpoint and reach the rename.
C11_Witness ==
    /\ last.op = "save"
    /\ ~last.model.has_content
    /\ LastKey \in DOMAIN prev
    /\ LastCpKey \notin DOMAIN prev
    /\ <<SaveNewName, SaveNewPath>> # <<last.name, Strip(last.path)>>
    /\ last.status = "400"

\* The create_checkpoint `last` records succeeded on a document that had a
\* checkpoint.
CheckpointRetaken ==
    /\ last.op = "create_checkpoint"
    /\ last.status = "ok"
    /\ LastCpKey \in DOMAIN prev

\* C12: list_checkpoints never returns more than one entry, for any
\* document in any reachable state; and a successful create_checkpoint on
\* a document that had a checkpoint overwrites it in place: the one
\* checkpoint listed then holds the bytes the notebook holds, and no other
\* key has been given the bytes the checkpoint held (every key but the
\* checkpoint key and the marker of checkpoint_dir holds what it held).
C12_OneCheckpointOverwritten ==
    /\ \A r \in Refs : Len(list_checkpoints(bucket, r[1], r[2])) <= 1
    /\ CheckpointRetaken
           => /\ Len(list_checkpoints(bucket, last.name, last.path)) = 1
              /\ LastKey \in DOMAIN bucket
              /\ LastCpKey \in DOMAIN bucket
              /\ bucket[LastCpKey] = bucket[LastKey]
              /\ SameAt(bucket, prev, LastKey)
              /\ \A k \in (DOMAIN bucket \cup DOMAIN prev)
                            \ {LastCpKey, checkpoint_dir} :
                     SameAt(bucket, prev, k)

\* C12's case: a checkpoint retaken while the old checkpoint held other
\* bytes than the notebook; those bytes are no longer at the checkpoint
\* key.
C12_Witness ==
    /\ CheckpointRetaken
    /\ prev[LastCpKey] # prev[LastKey]
    /\ bucket[LastCpKey] # prev[LastCpKey]

\* The directory that contains key k: k up to and with its last separator.
ParentPrefix(k) == SubSeq(k, 1, RFind(k, Slash))

\* C13: after a successful create_checkpoint the bucket holds a marker for
\* the checkpoint directory the new checkpoint is in: an object at the
\* checkpoint key's parent prefix, separator included.
C13_MarkerOfCheckpointDir ==
    (last.op = "create_checkpoint" /\ last.status = "ok")
        => ParentPrefix(LastCpKey) \in DOMAIN bucket

\* C14: restore_checkpoint and delete_checkpoint called with an id other
\* than "checkpoint" fail with 404 and leave the bucket as it was, in every
\* bucket the handlers can produce from an empty one.
C14_ForeignIdNotFound ==
    (last.op \in {"restore_checkpoint", "delete_checkpoint"}
        /\ last.cid # checkpoint_id)
        => (last.status = "404" /\ bucket = prev)

\* Two addresses denote the same document when their names and their paths
\* are the same up to leading and trailing separators.
SameDocument(n1, p1, n2, p2) == Strip(n1) = Strip(n2) /\ Strip(p1) = Strip(p2)

C16_Original ==
    last.op = "_get_os_path of key" => last.ret[1] = last.path

\* C16, amended: _get_os_path normalises its arguments once, so that the
\* name and path stripped of their separators resolve to the key the call
\* returned; fed back as the path, that key comes back under notebook_dir
\* once more: notebook_dir, a separator, and the key.
C16_ResolverPrefixesKey ==
    /\ last.op = "_get_os_path"
           => GetOsPath(Strip(last.name), Strip(last.path)) = last.ret[1]
    /\ last.op = "_get_os_path of key"
           => /\ last.ret[1] = Strip(notebook_dir) \o <<Slash>> \o last.path
              /\ last.path = GetOsPath(last.new_name, last.new_path)

\* C16's case: the key of a document in a directory fed back.
C16_Witness ==
    /\ last.op = "_get_os_path of key"
    /\ Strip(last.new_path) = <<"d", Slash, "e">>
    /\ last.ret[1] # last.path

\* The notebooks of the directory at API path `path` in bucket b: the names
\* that end with the extension, hold no separator, and have an object at
\* the key resolved from (name, path).
ChildNotebooks(b, path) ==
    LET dir == GetOsPath(<<>>, path) \o <<Slash>>
    IN  {name \in {SubSeq(k, Len(dir) + 1, Len(k)) :
                       k \in {k \in DOMAIN b : StartsWith(k, dir)}} :
            /\ EndsWith(name, filename_ext)
            /\ ~Contains(name, Slash)
            /\ notebook_exists(b, name, path)}

\* C17: get_notebook_names(path) returns exactly the notebooks of that
\* directory: every name returned exists there as a notebook, and nothing
\* of a sibling prefix or of a deeper level is returned.
C17_NamesAreChildren ==
    last.op = "get_notebook_names"
        => last.ret = ChildNotebooks(bucket, last.path)

\* The bucket of C18's scenario: under the root, the keys a/, a/x.ipynb and
\* .hidden/ and no other; the marker of the root itself may be there.
ScenarioKeys ==
    {UnderRoot(<<"a", Slash>>), UnderRoot(<<"a", Slash>> \o NameX),
     UnderRoot(<<Dot, "h", "i", "d", "d", "e", "n", Slash>>)}

\* C18: list_dirs("") on that bucket returns exactly one directory model,
\* named "a".
C18_ListDirsScenario ==
    (/\ last.op = "list_dirs"
     /\ last.path = <<>>
     /\ DOMAIN bucket \ {UnderRoot(<<>>)} = ScenarioKeys)
        => /\ last.status = "ok"
           /\ last.ret = {[name |-> <<"a">>, path |-> <<>>,
                           type |-> "directory"]}

\* In bucket b the document (name, path) has a checkpoint and no notebook.
Orphaned(b, name, path) ==
    /\ GetCheckpointPath(checkpoint_id, name, path) \in DOMAIN b
    /\ GetOsPath(name, path) \notin DOMAIN b

\* Handler p is a delete_notebook that has made its first store call and
\* it is the only handler that has: the bucket is what this delete has
\* made of the bucket `prev`, at whichever store call it stands or stops.
DeletesAlone(p) ==
    /\ procs[p].op = "delete"
    /\ procs[p].pc # "start"
    /\ \A q \in Procs \ {p} : procs[q].pc = "start"

\* C19: delete_notebook deletes the checkpoint before the notebook: when
\* the document had no checkpoint without a notebook as the delete began,
\* it has none in any state of the delete, between any two of its store
\* calls and after the last.
C19_CheckpointGoesFirst ==
    \A p \in DOMAIN procs :
        (DeletesAlone(p) /\ ~Orphaned(prev, procs[p].name, procs[p].path))
            => ~Orphaned(bucket, procs[p].name, procs[p].path)

\* C19's case: a delete of a notebook that had a checkpoint stands between
\* its two deletions: the checkpoint is gone, the notebook is still there.
C19_Witness ==
    \E p \in DOMAIN procs :
        /\ DeletesAlone(p)
        /\ procs[p].pc = "unlink"
        /\ OldKey(procs[p]) \in DOMAIN bucket
        /\ GetCheckpointPath(checkpoint_id, procs[p].name, procs[p].path)
               \in DOMAIN prev \ DOMAIN bucket

\* Both handlers are renames, of two documents to one, and both have
\* returned without an exception.
BothRenamed ==
    /\ DOMAIN procs = Procs
    /\ \A p \in Procs : /\ procs[p].op = "rename"
                         /\ procs[p].pc = "done"
                         /\ procs[p].status = "ok"
    /\ OldKey(procs[1]) # OldKey(procs[2])
    /\ NewKey(procs[1]) = NewKey(procs[2])

\* C20: two concurrent renames A -> C and B -> C can both succeed, and
\* whenever both have, A and B are gone, C holds what one of them held,
\* and what the other held is at no key of the bucket.
C20_BothRenamesLoseOne ==
    BothRenamed
        => /\ OldKey(procs[1]) \notin DOMAIN bucket
           /\ OldKey(procs[2]) \notin DOMAIN bucket
           /\ NewKey(procs[1]) \in DOMAIN bucket
           /\ \E p \in Procs :
                 /\ bucket[NewKey(procs[1])] = prev[OldKey(procs[p])]
                 /\ \A q \in Procs \ {p} : \A k \in DOMAIN bucket :
                        bucket[k] # prev[OldKey(procs[q])]

\* C20's case: both renames have succeeded on a bucket where A and B
\* existed, with other contents, and C was free; one of them has moved its
\* checkpoint too.
C20_Witness ==
    /\ BothRenamed
    /\ OldKey(procs[1]) \in DOMAIN prev
    /\ OldKey(procs[2]) \in DOMAIN prev
    /\ prev[OldKey(procs[1])] # prev[OldKey(procs[2])]
    /\ NewKey(procs[1]) \notin DOMAIN prev
    /\ GetCheckpointPath(checkpoint_id, procs[1].new_name, procs[1].new_path)
           \in DOMAIN bucket \ DOMAIN prev

\* No document of SpecDocs has a checkpoint without a notebook.
NoOrphan == \A r \in DocRefs : ~Orphaned(bucket, r[1], r[2])

\* C21 as stated: from an empty bucket, with script export off, after any
\* sequence of completed calls of save_notebook, create_checkpoint,
\* restore_checkpoint, delete_checkpoint, rename_notebook and
\* delete_notebook, whenever the checkpoint key of a document exists its
\* notebook key exists too.
C21_Original == ~save_script => NoOrphan

\* C21, amended: the same when no call was on a document that lies in a
\* checkpoint directory.
C21_NoOrphanedCheckpoint ==
    (~save_script /\ hist.phase # "hidden") => NoOrphan

\* C21's case: no call was on a document in a checkpoint directory, and a
\* notebook that had a checkpoint has been renamed into another directory:
\* notebook and checkpoint are at the new keys and nothing is at the old.
C21_Witness ==
    /\ ~save_script
    /\ hist.phase # "hidden"
    /\ RenameToOther
    /\ last.status = "ok"
    /\ LastCpKey \in DOMAIN prev
    /\ LastNewKey \in DOMAIN bucket
    /\ LastNewCpKey \in DOMAIN bucket
    /\ LastKey \notin DOMAIN bucket
    /\ LastCpKey \notin DOMAIN bucket

=============================================================================
